---- MODULE Spec2Model ----
(***************************************************************************)
(* The random game modifier of oink (src/tools/nudge.cpp): a parity-game   *)
(* graph is read, one successful random edit is applied under an action    *)
(* profile, and the result is handed on.  The model covers the graph       *)
(* (n_nodes, owner, out, in), the remaining budget `left`, the profile and *)
(* one attempt of the loop per step.                                       *)
(***************************************************************************)
EXTENDS Integers, Sequences, FiniteSets, TLC

\* Largest size, nodes plus edges, of an enumerated input game.
MaxSize == 6

\* game, left, profile: the variables of main; n, slot, action, pick: the
\* samples of the last attempt (slot is the action as drawn, action the one
\* performed, pick the second sample of actions 0, 4 and 5); ok: whether the
\* last attempt decremented left; pre, preleft: game and left when the last
\* attempt began; target: left when the loop began; done: successes so far;
\* input: the game as read; calls: the <<low, high>> arguments of the calls
\* of rng made by the last step.
VARIABLES game, left, profile, pc, n, slot, action, pick, ok, pre, preleft,
          target, done, input, calls

vars == <<game, left, profile, pc, n, slot, action, pick, ok, pre, preleft,
          target, done, input, calls>>

(***************************************************************************)
(* Sequence helpers (std::find, std::remove + erase, erase at an index).   *)
(***************************************************************************)
Range(s) == {s[i] : i \in 1..Len(s)}

\* std::find(s.begin(), s.end(), x) != s.end()
Contains(s, x) == \E i \in 1..Len(s) : s[i] = x

\* s.erase(std::remove(s.begin(), s.end(), x), s.end()): every x is dropped
RemoveAll(s, x) == SelectSeq(s, LAMBDA y : y # x)

\* s.erase(s.begin() + i), i counted from 0
EraseAt(s, i) == SubSeq(s, 1, i) \o SubSeq(s, i + 2, Len(s))

\* the node identities of game g
Nodes(g) == 0 .. (g.n_nodes - 1)

(***************************************************************************)
(* Graph store primitives used by the tool (declared in game.hpp).         *)
(***************************************************************************)
\* Game::addEdge, returned value: the edge is added only if absent
addEdgeResult(g, from, to) == ~Contains(g.out[from], to)

\* Game::addEdge, the game afterwards
addEdge(g, from, to) ==
    IF addEdgeResult(g, from, to)
    THEN [g EXCEPT !.out[from] = Append(@, to), !.in[to] = Append(@, from)]
    ELSE g

\* position (from 0) of old node x in the selection
Inverse(selection, x) == (CHOOSE i \in 1..Len(selection) : selection[i] = x) - 1

\* one adjacency list of the subgame: entries outside the selection are
\* dropped, the others renumbered
CarryOver(selection, list) ==
    LET kept == SelectSeq(list, LAMBDA x : x \in Range(selection))
    IN  [i \in 1..Len(kept) |-> Inverse(selection, kept[i])]

\* Game::extract_subgame(selection, NULL): a new game over the selected
\* nodes, renumbered in the order of the selection; the in lists are filled
\* as the edges are inserted, node by node
extract_subgame(g, selection) ==
    LET k == Len(selection)
        newout == [i \in 0..(k - 1) |-> CarryOver(selection, g.out[selection[i + 1]])]
        ids == [i \in 1..k |-> i - 1]
    IN  [n_nodes |-> k,
         owner   |-> [i \in 0..(k - 1) |-> g.owner[selection[i + 1]]],
         out     |-> newout,
         in      |-> [j \in 0..(k - 1) |->
                        SelectSeq(ids, LAMBDA i : Contains(newout[i], j))]]

(***************************************************************************)
(* Input games: every game of at most MaxSize nodes and edges together,    *)
(* lists in ascending order, and the four-node example of the              *)
(* specification.                                                          *)
(***************************************************************************)
RECURSIVE SortedSeq(_)
SortedSeq(S) ==
    IF S = {} THEN <<>>
    ELSE LET x == CHOOSE y \in S : \A z \in S : y <= z
         IN  <<x>> \o SortedSeq(S \ {x})

RECURSIVE EdgeSets(_, _)
\* the subsets of U with at most k elements
EdgeSets(k, U) ==
    IF k = 0 THEN {{}}
    ELSE LET S == EdgeSets(k - 1, U)
         IN  S \cup {s \cup {e} : s \in S, e \in U}

\* the game with nn nodes, edge set E and owners ow, as the parser builds it
MkGame(nn, E, ow) ==
    [n_nodes |-> nn,
     owner   |-> ow,
     out     |-> [i \in 0..(nn - 1) |-> SortedSeq({j \in 0..(nn - 1) : <<i, j>> \in E})],
     in      |-> [j \in 0..(nn - 1) |-> SortedSeq({i \in 0..(nn - 1) : <<i, j>> \in E})]]

\* owners alternate between the players
Owners(nn) == {[i \in 0..(nn - 1) |-> i % 2]}

EndToEndExample ==
    MkGame(4, {<<0, 1>>, <<1, 2>>, <<2, 0>>, <<2, 3>>}, [i \in 0..3 |-> i % 2])

InputGames ==
    {EndToEndExample} \cup
    UNION {{MkGame(nn, E, ow) :
              E \in EdgeSets(MaxSize - nn, (0..(nn - 1)) \X (0..(nn - 1))),
              ow \in Owners(nn)} : nn \in 1..MaxSize}

\* values of --modify: 0 remove only, 1 remove or add, anything else
Profiles == {0, 1, 2}

(***************************************************************************)
(* The program.                                                            *)
(***************************************************************************)
Init ==
    /\ game \in InputGames
    /\ left \in {0, 1}
    /\ target = left
    /\ profile \in Profiles
    /\ pc = "loop"
    /\ n = -1 /\ slot = -1 /\ action = -1 /\ pick = -1
    /\ ok = FALSE
    /\ pre = game
    /\ preleft = left
    /\ done = 0
    /\ input = game
    /\ calls = {}

\* every profile draws from all six actions
SlotRangeMutant(p) == 0..5

\* the range the action is sampled from
SlotRange(p) == IF p = 0 THEN 0..3 ELSE IF p = 1 THEN 0..2 ELSE 0..5

\* the slot taken for the action under every profile
SelectActionMutant(p, s) == s

\* slot 2 is not redirected to action 5
SelectActionNoAddMutant(p, s) ==
    IF p = 1 THEN (IF s = 1 THEN 3 ELSE s) ELSE s

\* the action a sampled slot stands for
SelectAction(p, s) ==
    IF p = 1 THEN (IF s = 1 THEN 3 ELSE IF s = 2 THEN 5 ELSE s) ELSE s

\* rng(0, game->n_nodes-1)
NodeRange(g) == 0 .. (g.n_nodes - 1)

\* only the nodes below d
TokeepMutant(g, d) == SelectSeq([i \in 1..g.n_nodes |-> i - 1], LAMBDA i : i < d)

\* all nodes but d, ascending
Tokeep(g, d) == SelectSeq([i \in 1..g.n_nodes |-> i - 1], LAMBDA i : d # i)

\* an attempt's outcome: the game afterwards and whether left is decremented
Outcome(g, success) == [game |-> g, success |-> success]

\* one outgoing edge is enough
CanRemoveEdgeMutant(g, nn) == Len(g.out[nn]) > 0

\* the guard of action 0
CanRemoveEdge(g, nn) == Len(g.out[nn]) > 1

\* the second sample of action 0 (none if the guard fails)
Picks0(g, nn) == IF CanRemoveEdge(g, nn) THEN 0 .. (Len(g.out[nn]) - 1) ELSE {-1}

\* action 0: remove a random edge if the node has 2+ outgoing edges
Perform0(g, nn, edge) ==
    IF CanRemoveEdge(g, nn)
    THEN LET m == g.out[nn][edge + 1]
             g1 == [g EXCEPT !.out[nn] = EraseAt(@, edge)]
         IN  Outcome([g1 EXCEPT !.in[m] = RemoveAll(@, nn)], TRUE)
    ELSE Outcome(g, FALSE)

RECURSIVE ForwardTo(_, _, _, _)
\* for (auto &to : game->out[n]) game->addEdge(from, to), from entry j on
ForwardTo(g, from, nn, j) ==
    IF j > Len(g.out[nn]) THEN g
    ELSE ForwardTo(addEdge(g, from, g.out[nn][j]), from, nn, j + 1)

RECURSIVE ForwardAll(_, _, _)
\* for (auto &from : game->in[n]) ..., from entry i on
ForwardAll(g, nn, i) ==
    IF i > Len(g.in[nn]) THEN g
    ELSE ForwardAll(ForwardTo(g, g.in[nn][i], nn, 1), nn, i + 1)

\* the successor is not compared with the node
CanForwardMutant(g, nn) == Len(g.out[nn]) = 1

\* the guard of action 1: a single successor that is not the node itself
CanForward(g, nn) == Len(g.out[nn]) = 1 /\ g.out[nn][1] # nn

\* the edges are forwarded before the guard is looked at
Perform1EarlyMutant(g, nn) ==
    IF CanForward(g, nn)
    THEN Outcome(extract_subgame(ForwardAll(g, nn, 1), Tokeep(g, nn)), TRUE)
    ELSE Outcome(ForwardAll(g, nn, 1), FALSE)

\* the node is removed without forwarding the edges
Perform1DropMutant(g, nn) ==
    IF CanForward(g, nn)
    THEN Outcome(extract_subgame(g, Tokeep(g, nn)), TRUE)
    ELSE Outcome(g, FALSE)

\* action 1: remove the node and forward edges if it has only 1 outgoing edge
Perform1(g, nn) ==
    IF CanForward(g, nn)
    THEN Outcome(extract_subgame(ForwardAll(g, nn, 1), Tokeep(g, nn)), TRUE)
    ELSE Outcome(g, FALSE)

\* action 2: remove the node
Perform2(g, nn) == Outcome(extract_subgame(g, Tokeep(g, nn)), TRUE)

\* the owner is decremented
Perform3Mutant(g, nn) == Outcome([g EXCEPT !.owner[nn] = @ - 1], TRUE)

\* the owner is set to player 1
Perform3SetMutant(g, nn) == Outcome([g EXCEPT !.owner[nn] = 1], TRUE)

\* left is not decremented
Perform3StuckMutant(g, nn) == Outcome([g EXCEPT !.owner[nn] = 1 - @], FALSE)

\* action 3: change owner of the node
Perform3(g, nn) == Outcome([g EXCEPT !.owner[nn] = 1 - @], TRUE)

\* out.erase(std::remove(out.begin(), out.end(), n), out.end()) on out[from]
DropEdgeToMe(g, from, nn) == [g EXCEPT !.out[from] = RemoveAll(@, nn)]

RECURSIVE AddMyEdges(_, _, _, _)
\* for (auto &to : game->out[n]): push to and from unless from has to already
AddMyEdges(g, from, nn, j) ==
    IF j > Len(g.out[nn]) THEN g
    ELSE LET to == g.out[nn][j]
         IN  IF ~Contains(g.out[from], to)
             THEN AddMyEdges([g EXCEPT !.out[from] = Append(@, to),
                                       !.in[to] = Append(@, from)], from, nn, j + 1)
             ELSE AddMyEdges(g, from, nn, j + 1)

\* the second sample of action 4 (none if the node has no predecessor)
Picks4(g, nn) == IF Len(g.in[nn]) > 0 THEN 0 .. (Len(g.in[nn]) - 1) ELSE {-1}

\* left is decremented whenever the node has a predecessor
Perform4Mutant(g, nn, r) ==
    IF Len(g.in[nn]) > 0
    THEN LET from == g.in[nn][r + 1]
         IN  IF from # nn
             THEN Outcome(AddMyEdges(DropEdgeToMe(g, from, nn), from, nn, 1), TRUE)
             ELSE Outcome(g, TRUE)
    ELSE Outcome(g, FALSE)

\* action 4: for one predecessor replace the edge to me by all my edges
Perform4(g, nn, r) ==
    IF Len(g.in[nn]) > 0
    THEN LET from == g.in[nn][r + 1]
         IN  IF from # nn
             THEN Outcome(AddMyEdges(DropEdgeToMe(g, from, nn), from, nn, 1), TRUE)
             ELSE Outcome(g, FALSE)
    ELSE Outcome(g, FALSE)

\* left is decremented whatever addEdge returns
Perform5Mutant(g, nn, m) == Outcome(addEdge(g, nn, m), TRUE)

\* action 5: add a random edge
Perform5(g, nn, m) == Outcome(addEdge(g, nn, m), addEdgeResult(g, nn, m))

\* the calls of rng in one iteration on game g under profile p: the node,
\* the action, and the second sample of actions 0, 4 and 5
SamplerCalls(g, p, nn, a) ==
    {<<0, g.n_nodes - 1>>, <<0, IF p = 0 THEN 3 ELSE IF p = 1 THEN 2 ELSE 5>>}
    \cup (IF a = 0 /\ CanRemoveEdge(g, nn) THEN {<<0, Len(g.out[nn]) - 1>>} ELSE {})
    \cup (IF a = 4 /\ Len(g.in[nn]) > 0 THEN {<<0, Len(g.in[nn]) - 1>>} ELSE {})
    \cup (IF a = 5 THEN {<<0, g.n_nodes - 1>>} ELSE {})

\* one iteration of the loop: node nn, slot s standing for action a, second
\* sample r, outcome o
Attempt(nn, s, a, r, o) ==
    /\ pc = "loop"
    /\ left > 0
    /\ SelectAction(profile, s) = a
    /\ n' = nn /\ slot' = s /\ action' = a /\ pick' = r
    /\ ok' = o.success
    /\ pre' = game
    /\ preleft' = left
    /\ game' = o.game
    /\ left' = IF o.success THEN left - 1 ELSE left
    /\ done' = IF o.success THEN done + 1 ELSE done
    /\ calls' = SamplerCalls(game, profile, nn, a)
    /\ UNCHANGED <<profile, pc, target, input>>

Action0 ==
    \E nn \in NodeRange(game), s \in SlotRange(profile) :
        \E edge \in Picks0(game, nn) :
            Attempt(nn, s, 0, edge, Perform0(game, nn, edge))

Action1 ==
    \E nn \in NodeRange(game), s \in SlotRange(profile) :
        Attempt(nn, s, 1, -1, Perform1(game, nn))

Action2 ==
    \E nn \in NodeRange(game), s \in SlotRange(profile) :
        Attempt(nn, s, 2, -1, Perform2(game, nn))

Action3 ==
    \E nn \in NodeRange(game), s \in SlotRange(profile) :
        Attempt(nn, s, 3, -1, Perform3(game, nn))

Action4 ==
    \E nn \in NodeRange(game), s \in SlotRange(profile) :
        \E r \in Picks4(game, nn) :
            Attempt(nn, s, 4, r, Perform4(game, nn, r))

Action5 ==
    \E nn \in NodeRange(game), s \in SlotRange(profile) :
        \E m \in NodeRange(game) :
            Attempt(nn, s, 5, m, Perform5(game, nn, m))

\* the loop condition fails
LoopExit ==
    /\ pc = "loop"
    /\ left = 0
    /\ pc' = "exit"
    /\ UNCHANGED <<game, left, profile, n, slot, action, pick, ok, pre,
                   preleft, target, done, input, calls>>

\* the successors of the nodes of S
Succs(g, S) == UNION {Range(g.out[x]) : x \in S}

RECURSIVE ReachFrom(_, _)
\* the nodes reachable from S, S included
ReachFrom(g, S) ==
    LET T == S \cup Succs(g, S)
    IN  IF T = S THEN S ELSE ReachFrom(g, T)

\* getBottomSCC(game, start, scc, true): the results allowed for start, each
\* a strongly connected set below start that no edge leaves
getBottomSCC(g, start) ==
    {S \in {ReachFrom(g, {x}) : x \in ReachFrom(g, {start})} :
        \A y \in S : ReachFrom(g, {y}) = S}

\* the locals of the loop body are gone after the loop
AfterLoop(g, c, p) ==
    /\ game' = g
    /\ calls' = c
    /\ pc' = p
    /\ pre' = game
    /\ preleft' = left
    /\ n' = -1 /\ slot' = -1 /\ action' = -1 /\ pick' = -1
    /\ ok' = FALSE
    /\ UNCHANGED <<left, profile, target, done, input>>

\* --bottom-scc is given: restrict the game to a bottom SCC of a random node.
\* On a game without nodes the call is rng(0, -1), whose behaviour is
\* undefined: whatever it returns is no node of the game.
BottomSCC ==
    /\ pc = "exit"
    /\ IF game.n_nodes > 0
       THEN \E start \in NodeRange(game) :
               \E scc \in getBottomSCC(game, start) :
                   AfterLoop(extract_subgame(game, SortedSeq(scc)),
                             {<<0, game.n_nodes - 1>>}, "done")
       ELSE AfterLoop(game, {<<0, game.n_nodes - 1>>}, "undefined")

\* --bottom-scc is not given
SkipBottomSCC ==
    /\ pc = "exit"
    /\ AfterLoop(game, {}, "done")

Next ==
    \/ Action0
    \/ Action1
    \/ Action2
    \/ Action3
    \/ Action4
    \/ Action5
    \/ LoopExit
    \/ BottomSCC
    \/ SkipBottomSCC

Spec == Init /\ [][Next]_vars

\* the sampler is fair: while attempts go on, action 3 is drawn again and
\* again, and the loop condition is evaluated
FairSpec == Spec /\ WF_vars(Action3) /\ WF_vars(LoopExit)

(***************************************************************************)
(* Vocabulary of the properties.                                           *)
(***************************************************************************)
\* the last attempt decremented the budget
Succeeded(a) == action = a /\ ok

HasEdge(g, a, b) == Contains(g.out[a], b)

HasBackEdge(g, a, b) == Contains(g.in[b], a)

NoDup(s) == \A i, j \in 1..Len(s) : i # j => s[i] # s[j]

\* I1 on game g
Symmetric(g) == \A a, b \in Nodes(g) : HasEdge(g, a, b) <=> HasBackEdge(g, a, b)

\* I2 on game g
DupFree(g) == \A a \in Nodes(g) : NoDup(g.out[a]) /\ NoDup(g.in[a])

\* the identity of old node x once node d is gone
Shift(d, x) == IF x < d THEN x ELSE x - 1

\* the success condition of action a on node nn of g with second sample r,
\* as the action table states it
PreconditionHolds(g, nn, a, r) ==
    CASE a = 0 -> Len(g.out[nn]) >= 2
      [] a = 1 -> Len(g.out[nn]) = 1 /\ g.out[nn][1] # nn
      [] a = 2 -> TRUE
      [] a = 3 -> TRUE
      [] a = 4 -> Len(g.in[nn]) > 0 /\ g.in[nn][r + 1] # nn
      [] a = 5 -> ~HasEdge(g, nn, r)

\* the edges of g by its out lists and by its in lists
Edges(g) == {e \in Nodes(g) \X Nodes(g) : HasEdge(g, e[1], e[2])}

BackEdges(g) == {e \in Nodes(g) \X Nodes(g) : HasBackEdge(g, e[1], e[2])}

RECURSIVE SumLen(_, _)
\* the total length of the lists f[0] .. f[k-1]
SumLen(f, k) == IF k = 0 THEN 0 ELSE Len(f[k - 1]) + SumLen(f, k - 1)

\* the number of edges of g
EdgeCount(g) == SumLen(g.out, g.n_nodes)

\* every node of g has a successor
NoDeadEnd(g) == \A a \in Nodes(g) : Len(g.out[a]) >= 1

\* an attempt has been made and its success condition did not hold
Failed == action # -1 /\ ~PreconditionHolds(pre, n, action, pick)

\* every list of g holds node identities of g only, and all owners are players
WellIndexed(g) ==
    /\ g.n_nodes >= 0
    /\ DOMAIN g.owner = Nodes(g) /\ DOMAIN g.out = Nodes(g) /\ DOMAIN g.in = Nodes(g)
    /\ \A a \in Nodes(g) :
          /\ Range(g.out[a]) \subseteq Nodes(g)
          /\ Range(g.in[a]) \subseteq Nodes(g)
          /\ g.owner[a] \in {0, 1}

(***************************************************************************)
(* C1: adjacency symmetry (I1).  If m is in out[n] iff n is in in[m]       *)
(* before an attempt, the same holds after every successful action.        *)
(***************************************************************************)
AdjacencySymmetry == (ok /\ Symmetric(pre)) => Symmetric(game)

(***************************************************************************)
(* C2: no duplicates (I2).  If no list repeats an entry before an attempt, *)
(* then after every successful action no out list and no in list holds the *)
(* same node twice.                                                        *)
(***************************************************************************)
NoDuplicates == (ok /\ DupFree(pre)) => DupFree(game)

(***************************************************************************)
(* C3: budget accounting.  Successes plus the remaining counter always     *)
(* equal the requested target; an attempt starts only with a positive      *)
(* counter, a successful one lowers it by exactly 1 and a failed one       *)
(* leaves it; the loop has exited only with counter 0 and exactly target   *)
(* successes, and no attempt is made once the counter is 0.                *)
(***************************************************************************)
BudgetAccounting ==
    /\ left >= 0
    /\ done + left = target
    /\ action # -1 =>
          /\ preleft > 0
          /\ ok <=> PreconditionHolds(pre, n, action, pick)
          /\ left = (IF PreconditionHolds(pre, n, action, pick)
                     THEN preleft - 1 ELSE preleft)
    /\ pc = "exit" => (left = 0 /\ done = target)
    /\ (left = 0 /\ action # -1) => ok

\* the loop has exited after the one requested success
BudgetWitness == pc = "exit" /\ done = 1 /\ target = 1 /\ ok /\ pre # game

(***************************************************************************)
(* C4: action 4 effect.  After a successful action 4 on node n with chosen *)
(* predecessor from # n, out[from] as a set is (old out[from] minus {n})   *)
(* union old out[n], and from is in in[x] exactly for the x in the new     *)
(* out[from]; in particular the edge (from, n) is gone from in[n] too      *)
(* unless n is its own successor.                                          *)
(***************************************************************************)
Action4Effect ==
    Succeeded(4) =>
        LET from == pre.in[n][pick + 1]
        IN  /\ Range(game.out[from]) =
                   (Range(pre.out[from]) \ {n}) \cup Range(pre.out[n])
            /\ \A x \in Nodes(game) :
                   Contains(game.in[x], from) <=> Contains(game.out[from], x)

(***************************************************************************)
(* C5: action 2 result and renumbering.  Action 2 on node d always         *)
(* succeeds and leaves one node less, identified 0..n-2; old node i is     *)
(* Shift(d, i), keeps its owner, and two new nodes are joined by an edge   *)
(* (in out and in in) iff the old nodes were; no list refers to anything   *)
(* but a survivor.  On the four-node example with d = 3 the result is      *)
(* 0->1, 1->2, 2->0 with owners [0,1,0].                                   *)
(***************************************************************************)
Action2Renumbering ==
    action = 2 =>
        LET Old == Nodes(pre) \ {n}
        IN  /\ ok
            /\ game.n_nodes = pre.n_nodes - 1
            /\ WellIndexed(game)
            /\ {Shift(n, i) : i \in Old} = Nodes(game)
            /\ \A i \in Old : game.owner[Shift(n, i)] = pre.owner[i]
            /\ \A i, j \in Old :
                  /\ HasEdge(game, Shift(n, i), Shift(n, j)) <=> HasEdge(pre, i, j)
                  /\ HasBackEdge(game, Shift(n, i), Shift(n, j)) <=> HasBackEdge(pre, i, j)
            /\ DupFree(game)
            /\ (pre = EndToEndExample /\ n = 3) =>
                  game = MkGame(3, {<<0, 1>>, <<1, 2>>, <<2, 0>>}, [i \in 0..2 |-> i % 2])

\* the four-node example has lost node 3
Action2Witness ==
    /\ Succeeded(2) /\ pre = EndToEndExample /\ n = 3
    /\ game.n_nodes = 3 /\ game.out[2] = <<0>>

(***************************************************************************)
(* C6: action 1 effect.  Action 1 on node n succeeds iff out[n] has        *)
(* exactly one entry s and s # n.  On success node n is gone, the others   *)
(* are renumbered in ascending order and keep their owners, every old      *)
(* predecessor of n has an edge to the renumbered s, and every old edge    *)
(* between two survivors is kept.  On 0->1, 1->2 with n = 1 the result has *)
(* two nodes and the single edge 0->1.                                     *)
(***************************************************************************)
Action1Effect ==
    action = 1 =>
        /\ ok <=> (Len(pre.out[n]) = 1 /\ pre.out[n][1] # n)
        /\ ok =>
              LET s == pre.out[n][1]
                  Old == Nodes(pre) \ {n}
              IN  /\ game.n_nodes = pre.n_nodes - 1
                  /\ WellIndexed(game)
                  /\ \A i \in Old : game.owner[Shift(n, i)] = pre.owner[i]
                  /\ \A p \in Range(pre.in[n]) :
                        /\ HasEdge(game, Shift(n, p), Shift(n, s))
                        /\ HasBackEdge(game, Shift(n, p), Shift(n, s))
                  /\ \A i, j \in Old :
                        HasEdge(pre, i, j) =>
                            /\ HasEdge(game, Shift(n, i), Shift(n, j))
                            /\ HasBackEdge(game, Shift(n, i), Shift(n, j))
                  /\ \A a, b \in Nodes(game) :
                        HasEdge(game, a, b) =>
                            \E i, j \in Old :
                                /\ a = Shift(n, i) /\ b = Shift(n, j)
                                /\ \/ HasEdge(pre, i, j)
                                   \/ (HasEdge(pre, i, n) /\ j = s)
                  /\ (pre = MkGame(3, {<<0, 1>>, <<1, 2>>}, pre.owner) /\ n = 1) =>
                        game = MkGame(2, {<<0, 1>>}, game.owner)

\* a predecessor that had no edge to s has one now, and n is gone
Action1Witness ==
    /\ Succeeded(1)
    /\ pre = MkGame(3, {<<0, 1>>, <<1, 2>>}, pre.owner) /\ n = 1
    /\ game.out[0] = <<1>>
    /\ \E p \in Range(pre.in[n]) :
          /\ ~HasEdge(pre, p, pre.out[n][1])
          /\ HasEdge(game, Shift(n, p), Shift(n, pre.out[n][1]))
    /\ game.n_nodes = pre.n_nodes - 1

(***************************************************************************)
(* C7: dense indexing (I3/I4).  After every successful action, the node    *)
(* deleting ones included, the nodes are exactly 0..n_nodes-1, every entry *)
(* of every out and in list lies in that range and every node has an owner *)
(* in {0, 1}.                                                              *)
(***************************************************************************)
DenseIndexing == ok => WellIndexed(game)

\* a node with a higher identity than the deleted one kept an edge
DenseWitness ==
    /\ ok /\ action \in {1, 2}
    /\ game.n_nodes = pre.n_nodes - 1
    /\ \E a \in Nodes(game) : a >= n /\ Len(game.out[a]) > 0

(***************************************************************************)
(* C8: action 0 postcondition.  Action 0 on node n succeeds iff out[n] has *)
(* at least 2 entries; then exactly the picked entry m leaves out[n], n    *)
(* leaves in[m], and all other lists, the owners and the node count stay.  *)
(***************************************************************************)
Action0Postcondition ==
    action = 0 =>
        /\ ok <=> (Len(pre.out[n]) >= 2)
        /\ ok =>
              LET m == pre.out[n][pick + 1]
              IN  /\ Len(game.out[n]) = Len(pre.out[n]) - 1
                  /\ \A i \in 1..Len(game.out[n]) :
                        game.out[n][i] = pre.out[n][IF i <= pick THEN i ELSE i + 1]
                  /\ ~Contains(game.in[m], n)
                  /\ Len(game.in[m]) = Len(pre.in[m]) - 1
                  /\ Range(game.in[m]) = Range(pre.in[m]) \ {n}
                  /\ \A x \in Nodes(pre) :
                        /\ x # n => game.out[x] = pre.out[x]
                        /\ x # m => game.in[x] = pre.in[x]
                  /\ game.owner = pre.owner
                  /\ game.n_nodes = pre.n_nodes

\* an edge other than the last of out[n] was removed
Action0Witness ==
    /\ Succeeded(0) /\ pick = 0
    /\ Len(pre.out[n]) = 3 /\ Len(game.out[n]) = 2

(***************************************************************************)
(* C9: profile action sets.  Under profile 0 the action applied is one of  *)
(* 0..3; under profile 1 it is one of {0,3,5}, slot 1 standing for 3 and   *)
(* slot 2 for 5; under any other profile it is one of 0..5.                *)
(***************************************************************************)
ProfileActionSets ==
    action # -1 =>
        /\ profile = 0 => (action \in {0, 1, 2, 3} /\ action = slot)
        /\ profile = 1 =>
              /\ action \in {0, 3, 5}
              /\ slot \in {0, 1, 2}
              /\ slot = 0 => action = 0
              /\ slot = 1 => action = 3
              /\ slot = 2 => action = 5
        /\ profile \notin {0, 1} => (action \in {0, 1, 2, 3, 4, 5} /\ action = slot)

\* under profile 1 slot 2 was drawn and action 5 applied
ProfileWitness == profile = 1 /\ slot = 2 /\ action = 5 /\ ok

(***************************************************************************)
(* C10: action 5 existence check.  Action 5 on node n with target m        *)
(* succeeds iff the edge (n, m) was absent; then exactly that edge is      *)
(* appended to out[n] and in[m]; otherwise (a present self-loop included)  *)
(* the budget and the whole game are unchanged.                            *)
(***************************************************************************)
Action5ExistenceCheck ==
    action = 5 =>
        /\ ok <=> ~HasEdge(pre, n, pick)
        /\ ok =>
              /\ game.out[n] = Append(pre.out[n], pick)
              /\ game.in[pick] = Append(pre.in[pick], n)
              /\ \A x \in Nodes(pre) :
                    /\ x # n => game.out[x] = pre.out[x]
                    /\ x # pick => game.in[x] = pre.in[x]
              /\ game.owner = pre.owner /\ game.n_nodes = pre.n_nodes
              /\ left = preleft - 1
        /\ ~ok => (game = pre /\ left = preleft)

\* an attempt to add a self-loop that is there already has failed
Action5Witness ==
    /\ action = 5 /\ ~ok /\ pick = n
    /\ HasEdge(pre, n, n) /\ game = pre /\ left = 1

(***************************************************************************)
(* C11: failed attempts have no effect.  Whenever the success condition of *)
(* the attempted action does not hold, the game (node count, owners, out   *)
(* and in lists) and the remaining budget are what they were before the    *)
(* attempt, and the loop goes on: the budget is positive and the loop has  *)
(* not been left.                                                          *)
(***************************************************************************)
FailedAttemptsHaveNoEffect ==
    Failed => /\ ~ok
              /\ game = pre
              /\ left = preleft
              /\ left > 0
              /\ pc = "loop"

\* action 4 drew the node itself as predecessor
FailedAttemptWitness ==
    /\ Failed /\ action = 4 /\ pick >= 0
    /\ pre.in[n][pick + 1] = n
    /\ game = pre /\ left = 1

(***************************************************************************)
(* C12: action 3 owner flip.  Action 3 on node n always succeeds, turns    *)
(* owner[n] from 0 to 1 or from 1 to 0 and leaves the other owners, the    *)
(* lists and the node count; applied once more to the same node it gives   *)
(* back the game it started from.                                          *)
(***************************************************************************)
Action3OwnerFlip ==
    action = 3 =>
        /\ ok
        /\ pre.owner[n] \in {0, 1}
        /\ game.owner[n] = 1 - pre.owner[n]
        /\ \A x \in Nodes(pre) \ {n} : game.owner[x] = pre.owner[x]
        /\ game.out = pre.out /\ game.in = pre.in
        /\ game.n_nodes = pre.n_nodes
        /\ Perform3(game, n).success
        /\ Perform3(game, n).game = pre

\* a node of player 1 went to player 0
Action3Witness == Succeeded(3) /\ pre.owner[n] = 1 /\ game.owner[n] = 0

(***************************************************************************)
(* C13: sampler ranges are valid.  Every call rng(low, high) the program   *)
(* makes (node, action, edge index, predecessor index, target node, start  *)
(* node of the bottom-SCC restriction) has low <= high.                    *)
(***************************************************************************)
SamplerRangesValid == \A c \in calls : c[1] <= c[2]

(***************************************************************************)
(* C14: termination under fair sampling.  While the loop runs on a game    *)
(* with at least one node, every profile can draw action 3 and action 3    *)
(* succeeds on every node; so under a fair sampler the budget reaches 0    *)
(* and the loop is left.                                                   *)
(***************************************************************************)
Action3AlwaysPossible ==
    (pc = "loop" /\ left > 0 /\ game.n_nodes >= 1) =>
        /\ \E s \in SlotRange(profile) : SelectAction(profile, s) = 3
        /\ \A nn \in NodeRange(game) : Perform3(game, nn).success

TerminatesUnderFairSampling ==
    /\ []Action3AlwaysPossible
    /\ <>(pc # "loop" /\ left = 0)

\* the loop was left after action 3 under the remove-or-add profile
TerminationWitness == pc = "exit" /\ left = 0 /\ Succeeded(3) /\ profile = 1

(***************************************************************************)
(* C15: actions 0, 1, 3, 4 and 5 never create a dead end.  If every node   *)
(* has a successor and I1 holds before one of these actions succeeds, then *)
(* every node has a successor afterwards.                                  *)
(***************************************************************************)
NoNewDeadEnd ==
    (ok /\ action \in {0, 1, 3, 4, 5} /\ NoDeadEnd(pre) /\ Symmetric(pre)) =>
        NoDeadEnd(game)

\* action 1 removed the only successor of one of its predecessors
NoNewDeadEndWitness ==
    /\ Succeeded(1) /\ NoDeadEnd(pre) /\ Symmetric(pre)
    /\ \E p \in Range(pre.in[n]) : pre.out[p] = <<n>>
    /\ NoDeadEnd(game)

(***************************************************************************)
(* C16: the remove-only profile never grows the game.  Under profile 0 no  *)
(* successful action raises the number of nodes or of edges; action 1 on a *)
(* node with k predecessors removes k+1 edges and adds one forwarded edge  *)
(* for each predecessor that had none to the successor, at most k, so the  *)
(* number of edges goes down; action 0 lowers it by exactly 1.             *)
(***************************************************************************)
RemoveOnlyNeverGrows ==
    (profile = 0 /\ ok) =>
        /\ game.n_nodes <= pre.n_nodes
        /\ EdgeCount(game) <= EdgeCount(pre)
        /\ action = 0 => EdgeCount(game) = EdgeCount(pre) - 1
        /\ action = 1 =>
              LET k == Len(pre.in[n])
                  added == Cardinality({p \in Range(pre.in[n]) :
                                           ~HasEdge(pre, p, pre.out[n][1])})
              IN  /\ added <= k
                  /\ EdgeCount(game) = EdgeCount(pre) - (k + 1) + added
                  /\ EdgeCount(game) < EdgeCount(pre)

\* action 1 forwarded an edge for each of two predecessors
RemoveOnlyWitness ==
    /\ profile = 0 /\ Succeeded(1)
    /\ Len(pre.in[n]) = 2
    /\ EdgeCount(game) = EdgeCount(pre) - 1

(***************************************************************************)
(* C17: the remove-or-add profile keeps the node set.  Under profile 1,    *)
(* as long as the loop has not been left behind, the game has as many      *)
(* nodes as the input and no compacting action (1, 2) is ever applied;     *)
(* a successful action changes exactly one owner (action 3) or exactly one *)
(* edge (action 0 removes one, action 5 adds one) and nothing else.        *)
(***************************************************************************)
RemoveOrAddKeepsNodes ==
    (profile = 1 /\ pc \in {"loop", "exit"}) =>
        /\ game.n_nodes = input.n_nodes
        /\ action \notin {1, 2, 4}
        /\ ok =>
              /\ action = 3 =>
                    /\ Cardinality({x \in Nodes(pre) : game.owner[x] # pre.owner[x]}) = 1
                    /\ game.out = pre.out /\ game.in = pre.in
              /\ action = 0 =>
                    /\ Edges(game) \subseteq Edges(pre)
                    /\ Cardinality(Edges(pre) \ Edges(game)) = 1
                    /\ BackEdges(game) = Edges(game)
                    /\ game.owner = pre.owner
              /\ action = 5 =>
                    /\ Edges(pre) \subseteq Edges(game)
                    /\ Cardinality(Edges(game) \ Edges(pre)) = 1
                    /\ BackEdges(game) = Edges(game)
                    /\ game.owner = pre.owner
              /\ action \in {0, 3, 5}

\* an edge was added and the loop left with the node count of the input
RemoveOrAddWitness ==
    /\ profile = 1 /\ pc = "exit" /\ Succeeded(5)
    /\ game.n_nodes = input.n_nodes /\ game.n_nodes >= 2
    /\ EdgeCount(game) = EdgeCount(input) + 1

====
